---- MODULE Spec2Model ----
(***************************************************************************)
(* QuickBooks integration: the token/session client (QuickBooksAPI) and    *)
(* the sync orchestrator (QuickBooksDataSync) of lib/quickbooks, driven by *)
(* callers that await each call and by the integration page, and the OAuth *)
(* callback route.  Time is in milliseconds, token lifetimes in seconds,   *)
(* as in the source.                                                       *)
(***************************************************************************)
EXTENDS Integers, Sequences, FiniteSets, TLC

VARIABLES now, grants, books, lsAuth, lsData, proc, cb, fn, page

vars == <<now, grants, books, lsAuth, lsData, proc, cb, fn, page>>

(* ------------------------------ bounds --------------------------------- *)

\* The clock advances at most this many seconds.
MaxTicks == 1

\* Amounts (balances, totals) of the vendor's records range over -1..MaxAmount.
MaxAmount == 2

\* An entity list handed to a normalizer holds at most this many records.
MaxItems == 1

\* The vendor grants at most this many access tokens (the first included).
MaxGrants == 2

\* Lifetimes (seconds) the vendor reports for a token: at, and one second
\* above, the refresh margin.
Lifetimes == {300, 301}

\* HTTP outcomes of a failing vendor call; 0 is a network failure (no response).
ErrStatuses == {0, 401, 500}

\* Date strings a caller supplies; "" is an absent (falsy) date.
StartDates == {"", "2024-01-01"}

EndDates == {"", "2024-06-01"}

Procs == {"api", "test", "sync"}

(* --------------------------- program constants ------------------------- *)

\* ensureValidToken: Date.now() >= this.tokenExpiresAt - 300000
RefreshMarginMs == 300000

\* constructor: Date.now() + 3600 * 1000 when the bundle has no expiresIn
DefaultLifetimeS == 3600

RealmId == "realm-1"

(* ------------------------------ errors --------------------------------- *)

\* The error axios rejects with: the raw transport error.
TransportError(status) == [kind |-> "transport", status |-> status, type |-> "none"]

\* Calling a method the object does not have.
TypeErrorValue == [kind |-> "TypeError", status |-> 0, type |-> "none"]

\* localStorage.setItem throwing (quota exceeded, storage disabled).
StorageErrorValue == [kind |-> "storage", status |-> 0, type |-> "none"]

ErrorTypes == {"AUTHENTICATION", "CONNECTION", "RATE_LIMIT", "SERVER_ERROR",
               "INVALID_REQUEST", "UNKNOWN"}

\* lib/quickbooks/error-handling is not among the sources: the classifier is
\* taken from the specification's taxonomy (status code and network failure).
handleQuickBooksError(error) ==
  [kind |-> "classified", status |-> error.status,
   type |-> IF error.kind # "transport" THEN "UNKNOWN"
            ELSE IF error.status = 0 THEN "CONNECTION"
            ELSE IF error.status \in {401, 403} THEN "AUTHENTICATION"
            ELSE IF error.status = 429 THEN "RATE_LIMIT"
            ELSE IF error.status >= 500 THEN "SERVER_ERROR"
            ELSE IF error.status = 400 THEN "INVALID_REQUEST"
            ELSE "UNKNOWN"]

(* --------------------------- vendor payloads --------------------------- *)

\* A reference object of the vendor JSON (CustomerRef, VendorRef, ...);
\* present = FALSE is a missing object, read through optional chaining.
Ref(value, name) == [present |-> TRUE, value |-> value, name |-> name]

NoRef == [present |-> FALSE, value |-> "undefined", name |-> "undefined"]

\* obj?.field
OptValue(ref) == IF ref.present THEN ref.value ELSE "undefined"

OptName(ref) == IF ref.present THEN ref.name ELSE "undefined"

\* A query response: data, data.QueryResponse and data.QueryResponse.<Entity>
\* may each be missing; items is the entity list when it is there.
Payload(hasData, hasQR, hasList, items) ==
  [data |-> hasData, QueryResponse |-> hasQR, list |-> hasList, items |-> items]

Line(desc, amount, qty, price) ==
  [Description |-> desc, Amount |-> amount, Quantity |-> qty, UnitPrice |-> price]

AccountsOfBooks ==
  << [Id |-> "1", Name |-> "Checking", AccountType |-> "Bank",
      AccountSubType |-> "Checking", CurrentBalance |-> 1200, Active |-> TRUE],
     [Id |-> "2", Name |-> "Sales", AccountType |-> "Income",
      AccountSubType |-> "SalesOfProductIncome", CurrentBalance |-> 0, Active |-> FALSE] >>

CustomersOfBooks ==
  << [Id |-> "10", DisplayName |-> "Acme", CompanyName |-> "Acme Inc",
      PrimaryEmailAddr |-> Ref("a@acme.test", "undefined"), PrimaryPhone |-> NoRef,
      Balance |-> 40, Active |-> TRUE] >>

InvoicesOfBooks ==
  << [Id |-> "100", CustomerRef |-> Ref("10", "Acme"), TxnDate |-> "2024-02-01",
      DueDate |-> "2024-03-01", TotalAmt |-> 100, Balance |-> 100, hasLine |-> TRUE,
      Line |-> <<Line("Widget", 100, 2, 50)>>],
     [Id |-> "101", CustomerRef |-> Ref("10", "Acme"), TxnDate |-> "2024-02-02",
      DueDate |-> "2024-03-02", TotalAmt |-> 100, Balance |-> 0, hasLine |-> FALSE,
      Line |-> <<>>],
     [Id |-> "102", CustomerRef |-> NoRef, TxnDate |-> "2023-12-30",
      DueDate |-> "2024-01-30", TotalAmt |-> 100, Balance |-> 40, hasLine |-> TRUE,
      Line |-> <<>>] >>

BillsOfBooks ==
  << [Id |-> "200", VendorRef |-> Ref("20", "Supplier"), TxnDate |-> "2024-02-03",
      DueDate |-> "2024-03-03", TotalAmt |-> 80, Balance |-> 30, hasLine |-> TRUE,
      Line |-> <<Line("Parts", 80, 0, 0)>>],
     [Id |-> "201", VendorRef |-> NoRef, TxnDate |-> "2024-02-04",
      DueDate |-> "2024-03-04", TotalAmt |-> 80, Balance |-> 0, hasLine |-> FALSE,
      Line |-> <<>>] >>

PaymentsOfBooks ==
  << [Id |-> "300", CustomerRef |-> Ref("10", "Acme"), TxnDate |-> "2024-02-05",
      TotalAmt |-> 60, PaymentMethodRef |-> Ref("1", "Check")] >>

\* What the vendor holds for the company: each book answers every query and
\* report. "empty" answers a QueryResponse without the entity list.
BookNames == {"small", "empty"}

Entities == {"Account", "Customer", "Invoice", "Bill", "Payment"}

EntityItems(entity) ==
  CASE entity = "Account" -> AccountsOfBooks
    [] entity = "Customer" -> CustomersOfBooks
    [] entity = "Invoice" -> InvoicesOfBooks
    [] entity = "Bill" -> BillsOfBooks
    [] entity = "Payment" -> PaymentsOfBooks

QueryAnswer(book, entity) ==
  IF book = "small" THEN Payload(TRUE, TRUE, TRUE, EntityItems(entity))
  ELSE Payload(TRUE, TRUE, FALSE, <<>>)

\* A report body, as the vendor returns it.
ReportAnswer(book, report) == [Header |-> report, Book |-> book]

CompanyAnswer(book) == [CompanyInfo |-> book]

(* ---------------------------- normalization ---------------------------- *)

\* The guard without its test of the entity list.
MissingNoListTest(data) == ~data.data \/ ~data.QueryResponse

\* !data || !data.QueryResponse || !data.QueryResponse.<Entity>
Missing(data) == ~data.data \/ ~data.QueryResponse \/ ~data.list

AccountRecord(account) ==
  [id |-> account.Id, name |-> account.Name, type |-> account.AccountType,
   subType |-> account.AccountSubType, balance |-> account.CurrentBalance,
   isActive |-> account.Active]

processAccounts(data) ==
  IF Missing(data) THEN <<>> ELSE [i \in 1..Len(data.items) |-> AccountRecord(data.items[i])]

CustomerRecord(customer) ==
  [id |-> customer.Id, displayName |-> customer.DisplayName,
   companyName |-> customer.CompanyName,
   email |-> OptValue(customer.PrimaryEmailAddr),
   phone |-> OptValue(customer.PrimaryPhone),
   balance |-> customer.Balance, isActive |-> customer.Active]

processCustomers(data) ==
  IF Missing(data) THEN <<>> ELSE [i \in 1..Len(data.items) |-> CustomerRecord(data.items[i])]

\* The tests in the other order.
getInvoiceStatusUnpaidFirst(invoice) ==
  IF invoice.Balance = invoice.TotalAmt THEN "Unpaid"
  ELSE IF invoice.Balance = 0 THEN "Paid"
  ELSE "Partial"

getInvoiceStatus(invoice) ==
  IF invoice.Balance = 0 THEN "Paid"
  ELSE IF invoice.Balance = invoice.TotalAmt THEN "Unpaid"
  ELSE "Partial"

InvoiceLine(line) ==
  [description |-> line.Description, amount |-> line.Amount,
   quantity |-> line.Quantity, unitPrice |-> line.UnitPrice]

\* invoice.Line || []
LinesOf(entity) == IF entity.hasLine THEN entity.Line ELSE <<>>

InvoiceRecord(invoice) ==
  [id |-> invoice.Id, customerId |-> OptValue(invoice.CustomerRef),
   customerName |-> OptName(invoice.CustomerRef), date |-> invoice.TxnDate,
   dueDate |-> invoice.DueDate, total |-> invoice.TotalAmt,
   balance |-> invoice.Balance, status |-> getInvoiceStatus(invoice),
   lineItems |-> [i \in 1..Len(LinesOf(invoice)) |-> InvoiceLine(LinesOf(invoice)[i])]]

processInvoices(data) ==
  IF Missing(data) THEN <<>> ELSE [i \in 1..Len(data.items) |-> InvoiceRecord(data.items[i])]

BillLine(line) == [description |-> line.Description, amount |-> line.Amount]

\* The three-way status of an invoice, applied to a bill.
BillStatusThreeWay(bill) ==
  IF bill.Balance = 0 THEN "Paid"
  ELSE IF bill.Balance = bill.TotalAmt THEN "Unpaid"
  ELSE "Partial"

BillStatus(bill) == IF bill.Balance = 0 THEN "Paid" ELSE "Unpaid"

BillRecord(bill) ==
  [id |-> bill.Id, vendorId |-> OptValue(bill.VendorRef),
   vendorName |-> OptName(bill.VendorRef), date |-> bill.TxnDate,
   dueDate |-> bill.DueDate, total |-> bill.TotalAmt, balance |-> bill.Balance,
   status |-> BillStatus(bill),
   lineItems |-> [i \in 1..Len(LinesOf(bill)) |-> BillLine(LinesOf(bill)[i])]]

processBills(data) ==
  IF Missing(data) THEN <<>> ELSE [i \in 1..Len(data.items) |-> BillRecord(data.items[i])]

\* The payment record under the vendor's name for the method.
PaymentRecordVendorNames(payment) ==
  [id |-> payment.Id, customerId |-> OptValue(payment.CustomerRef),
   customerName |-> OptName(payment.CustomerRef), date |-> payment.TxnDate,
   amount |-> payment.TotalAmt,
   paymentMethodName |-> OptName(payment.PaymentMethodRef)]

PaymentRecord(payment) ==
  [id |-> payment.Id, customerId |-> OptValue(payment.CustomerRef),
   customerName |-> OptName(payment.CustomerRef), date |-> payment.TxnDate,
   amount |-> payment.TotalAmt, paymentMethod |-> OptName(payment.PaymentMethodRef)]

processPayments(data) ==
  IF Missing(data) THEN <<>> ELSE [i \in 1..Len(data.items) |-> PaymentRecord(data.items[i])]

\* Reports are returned as they came.
processReport(data) == data


(* ------------------------------ the client ----------------------------- *)

\* The public read operations of QuickBooksAPI.
ReadOps == {"getCompanyInfo", "getAccounts", "getCustomers", "getInvoices",
            "getBills", "getPayments", "getProfitAndLossReport",
            "getBalanceSheetReport", "getCashFlowReport"}

\* The methods a QuickBooksAPI object has.
ApiMethods == ReadOps \cup {"testConnection"}

DatedOps == {"getInvoices", "getBills", "getPayments"}

EntityOf(op) ==
  CASE op = "getAccounts" -> "Account"
    [] op = "getCustomers" -> "Customer"
    [] op = "getInvoices" -> "Invoice"
    [] op = "getBills" -> "Bill"
    [] op = "getPayments" -> "Payment"

\* The query with its conjunction whenever an end date is given.
BuildQueryAndBeforeEnd(entity, startDate, endDate) ==
  LET base == "select * from " \o entity
      where == IF startDate # "" \/ endDate # "" THEN " WHERE " ELSE ""
      lower == IF startDate # "" THEN "TxnDate >= '" \o startDate \o "'" ELSE ""
      conj == IF endDate # "" THEN " AND " ELSE ""
      upper == IF endDate # "" THEN "TxnDate <= '" \o endDate \o "'" ELSE ""
  IN  base \o where \o lower \o conj \o upper

\* The query string of getInvoices, getBills and getPayments.
BuildQuery(entity, startDate, endDate) ==
  LET base == "select * from " \o entity
      where == IF startDate # "" \/ endDate # "" THEN " WHERE " ELSE ""
      lower == IF startDate # "" THEN "TxnDate >= '" \o startDate \o "'" ELSE ""
      conj == IF startDate # "" /\ endDate # "" THEN " AND " ELSE ""
      upper == IF endDate # "" THEN "TxnDate <= '" \o endDate \o "'" ELSE ""
  IN  base \o where \o lower \o conj \o upper

\* The path and query of the GET each operation sends, after the base URL and
\* the realm; the dated queries go through encodeURIComponent, the vendor
\* decodes them, and url holds the decoded text.
RequestUrl(op, startDate, endDate) ==
  CASE op = "getCompanyInfo" -> "/companyinfo/" \o RealmId
    [] op \in {"getAccounts", "getCustomers"} ->
         "/query?query=select * from " \o EntityOf(op)
    [] op \in DatedOps -> "/query?query=" \o BuildQuery(EntityOf(op), startDate, endDate)
    [] op = "getProfitAndLossReport" ->
         "/reports/ProfitAndLoss?start_date=" \o startDate \o "&end_date=" \o endDate
    [] op = "getBalanceSheetReport" -> "/reports/BalanceSheet?as_of=" \o endDate
    [] op = "getCashFlowReport" ->
         "/reports/CashFlow?start_date=" \o startDate \o "&end_date=" \o endDate

\* response.data of a successful GET.
Answer(book, op) ==
  CASE op = "getCompanyInfo" -> CompanyAnswer(book)
    [] op = "getProfitAndLossReport" -> ReportAnswer(book, "ProfitAndLoss")
    [] op = "getBalanceSheetReport" -> ReportAnswer(book, "BalanceSheet")
    [] op = "getCashFlowReport" -> ReportAnswer(book, "CashFlow")
    [] OTHER -> QueryAnswer(book, EntityOf(op))

\* The stored credential bundle (localStorage "qb_auth_data").
Bundle(accessToken, refreshToken, expiresIn) ==
  [present |-> TRUE, accessToken |-> accessToken, refreshToken |-> refreshToken,
   expiresIn |-> expiresIn, realmId |-> RealmId]

NoBundle ==
  [present |-> FALSE, accessToken |-> 0, refreshToken |-> 0, expiresIn |-> 0,
   realmId |-> "none"]

NoSnapshot == [present |-> FALSE, syncedAt |-> 0, data |-> <<>>]

\* A snapshot an earlier sync of the customers left in the store.
EarlierSnapshot ==
  [present |-> TRUE, syncedAt |-> 0,
   data |-> [customers |-> processCustomers(QueryAnswer("small", "Customer"))]]

NoClient ==
  [live |-> FALSE, accessToken |-> 0, refreshToken |-> 0, realmId |-> "none",
   tokenExpiresAt |-> 0]

\* new QuickBooksAPI(authData) at instant t; expiresIn = 0 is a bundle
\* without the field.
Construct(authData, t) ==
  [live |-> TRUE, accessToken |-> authData.accessToken,
   refreshToken |-> authData.refreshToken, realmId |-> authData.realmId,
   tokenExpiresAt |-> IF authData.expiresIn # 0 THEN t + authData.expiresIn * 1000
                      ELSE t + DefaultLifetimeS * 1000]

\* The test without the safety margin: refresh only once the token has expired.
NearExpiryNoMargin(client, t) == t >= client.tokenExpiresAt

\* ensureValidToken's test at instant t.
NearExpiry(client, t) == t >= client.tokenExpiresAt - RefreshMarginMs

NoError == [kind |-> "none", status |-> 0, type |-> "none"]

NoReturn == [kind |-> "none"]

NoOptions ==
  [syncAccounts |-> FALSE, syncCustomers |-> FALSE, syncInvoices |-> FALSE,
   syncBills |-> FALSE, syncPayments |-> FALSE, syncReports |-> FALSE,
   startDate |-> "", endDate |-> ""]

\* One caller's activation: where it awaits (pc), its client object, the read
\* operation in flight with its arguments, syncData's options and results, what
\* it returned or threw, the error its catch block received, and the history
\* of the activation: the requests it sent and their outcomes (log), the time
\* the token had left when the current operation was entered (left), the
\* client and the stored bundle as the refresh attempt found them (pre).
IdleProc ==
  [pc |-> "idle", client |-> NoClient, op |-> "none", startDate |-> "",
   endDate |-> "", step |-> 0, opts |-> NoOptions, results |-> <<>>,
   ret |-> NoReturn, caught |-> NoError, log |-> <<>>, left |-> 0,
   pre |-> [client |-> NoClient, ls |-> NoBundle]]

Event(ev, op, url) == [ev |-> ev, op |-> op, url |-> url]

\* A read operation up to its first await, at instant t: ensureValidToken,
\* then either the refresh POST or the operation's GET is sent.
StartRead(pr, op, startDate, endDate, t) ==
  LET left == pr.client.tokenExpiresAt - t
      entered == [pr EXCEPT !.op = op, !.startDate = startDate,
                            !.endDate = endDate, !.left = left]
  IN  IF NearExpiry(pr.client, t)
      THEN [entered EXCEPT !.pc = "refresh",
                           !.pre = [client |-> pr.client, ls |-> lsAuth],
                           !.log = Append(pr.log, Event("refresh_sent", op, "/tokens/bearer"))]
      ELSE [entered EXCEPT !.pc = "get",
                           !.log = Append(pr.log, Event("get_sent", op,
                                                        RequestUrl(op, startDate, endDate)))]

\* refreshAccessToken after a successful POST, at instant t: the in-memory
\* tokens and expiry are replaced.
Refreshed(client, accessToken, refreshToken, expiresIn, t) ==
  [client EXCEPT !.accessToken = accessToken,
                 !.refreshToken = IF refreshToken # 0 THEN refreshToken ELSE @,
                 !.tokenExpiresAt = t + expiresIn * 1000]

SendGet(pr) ==
  [pr EXCEPT !.pc = "get",
             !.log = Append(@, Event("get_sent", pr.op,
                                     RequestUrl(pr.op, pr.startDate, pr.endDate)))]

Logged(pr, ev) == [pr EXCEPT !.log = Append(@, Event(ev, pr.op, "none"))]

(* -------------------------- the sync orchestrator ---------------------- *)

SyncOptionsSet ==
  [syncAccounts : BOOLEAN, syncCustomers : BOOLEAN, syncInvoices : BOOLEAN,
   syncBills : BOOLEAN, syncPayments : BOOLEAN, syncReports : BOOLEAN,
   startDate : StartDates, endDate : EndDates]

\* syncData's fetches in program order: the five categories, then the three
\* reports of the reports block.
SyncSteps == 1..8

\* The method of this.api each step calls.
SyncMethod(k) ==
  CASE k = 1 -> "getAccounts"
    [] k = 2 -> "getCustomers"
    [] k = 3 -> "getInvoices"
    [] k = 4 -> "getBills"
    [] k = 5 -> "getPayments"
    [] k = 6 -> "getProfitAndLossReport"
    [] k = 7 -> "getBalanceSheet"
    [] k = 8 -> "getCashFlowStatement"

\* The key of results each step assigns.
SyncKey(k) ==
  CASE k = 1 -> "accounts"
    [] k = 2 -> "customers"
    [] k = 3 -> "invoices"
    [] k = 4 -> "bills"
    [] k = 5 -> "payments"
    [] k = 6 -> "profitAndLoss"
    [] k = 7 -> "balanceSheet"
    [] k = 8 -> "cashFlow"

\* The reports block guarded by its flag alone.
StepEnabledFlagOnly(opts, k) ==
  CASE k = 1 -> opts.syncAccounts
    [] k = 2 -> opts.syncCustomers
    [] k = 3 -> opts.syncInvoices
    [] k = 4 -> opts.syncBills
    [] k = 5 -> opts.syncPayments
    [] OTHER -> opts.syncReports

\* The condition guarding each step.
StepEnabled(opts, k) ==
  CASE k = 1 -> opts.syncAccounts
    [] k = 2 -> opts.syncCustomers
    [] k = 3 -> opts.syncInvoices
    [] k = 4 -> opts.syncBills
    [] k = 5 -> opts.syncPayments
    [] OTHER -> opts.syncReports /\ opts.startDate # "" /\ opts.endDate # ""

\* The arguments each step passes: the categories pass none, the reports pass
\* the dates of the options.
SyncStart(opts, k) == IF k \in {6, 8} THEN opts.startDate ELSE ""

SyncEnd(opts, k) == IF k \in {6, 7, 8} THEN opts.endDate ELSE ""

\* What each step stores of the payload it got.
Normalize(k, data) ==
  CASE k = 1 -> processAccounts(data)
    [] k = 2 -> processCustomers(data)
    [] k = 3 -> processInvoices(data)
    [] k = 4 -> processBills(data)
    [] k = 5 -> processPayments(data)
    [] OTHER -> processReport(data)

Returned(value) == [kind |-> "returned", value |-> value]

Threw(error) == [kind |-> "threw", value |-> error]

\* A catch block that hands back what was fetched before the failure.
SyncFailPartial(pr, error) ==
  [pr EXCEPT !.pc = "done", !.caught = error,
             !.ret = Returned([success |-> FALSE,
                               error |-> "Failed to sync data from QuickBooks",
                               data |-> pr.results])]

\* syncData's catch block: the error is logged and a generic failure returned.
SyncFail(pr, error) ==
  [pr EXCEPT !.pc = "done", !.results = <<>>, !.caught = error,
             !.ret = Returned([success |-> FALSE,
                               error |-> "Failed to sync data from QuickBooks"])]

\* storeData at instant t, and the return after it.
StoreAndReturn(pr, storeOk, t) ==
  IF storeOk
  THEN [pr |-> [pr EXCEPT !.pc = "done",
                          !.ret = Returned([success |-> TRUE, data |-> pr.results])],
        snap |-> [present |-> TRUE, syncedAt |-> t, data |-> pr.results]]
  ELSE [pr |-> SyncFail(pr, StorageErrorValue), snap |-> lsData]

\* A syncData that stores what it has each time it goes on to the next fetch.
RECURSIVE SyncFromEager(_, _, _, _)
SyncFromEager(pr, k, storeOk, t) ==
  IF k \notin SyncSteps THEN StoreAndReturn(pr, storeOk, t)
  ELSE IF ~StepEnabled(pr.opts, k) THEN SyncFromEager(pr, k + 1, storeOk, t)
  ELSE IF SyncMethod(k) \notin ApiMethods
       THEN [pr |-> SyncFail(pr, TypeErrorValue), snap |-> lsData]
  ELSE [pr |-> StartRead([pr EXCEPT !.step = k], SyncMethod(k),
                         SyncStart(pr.opts, k), SyncEnd(pr.opts, k), t),
        snap |-> [present |-> TRUE, syncedAt |-> t, data |-> pr.results]]

\* syncData from step k up to its next await or its return, at instant t:
\* the activation it leaves and the stored snapshot.
RECURSIVE SyncFrom(_, _, _, _)
SyncFrom(pr, k, storeOk, t) ==
  IF k \notin SyncSteps THEN StoreAndReturn(pr, storeOk, t)
  ELSE IF ~StepEnabled(pr.opts, k) THEN SyncFrom(pr, k + 1, storeOk, t)
  ELSE IF SyncMethod(k) \notin ApiMethods
       THEN [pr |-> SyncFail(pr, TypeErrorValue), snap |-> lsData]
  ELSE [pr |-> StartRead([pr EXCEPT !.step = k], SyncMethod(k),
                         SyncStart(pr.opts, k), SyncEnd(pr.opts, k), t),
        snap |-> lsData]

(* ------------------------------ the callers ---------------------------- *)

\* A testConnection without its catch block: the error of the probe goes up.
ResumeTestRethrows(p, pr, ok, value, error, storeOk, t) ==
  CASE p = "api" ->
         [pr |-> [pr EXCEPT !.pc = "done",
                            !.ret = IF ok THEN Returned(value) ELSE Threw(error)],
          snap |-> lsData]
    [] p = "test" ->
         [pr |-> [pr EXCEPT !.pc = "done",
                            !.caught = NoError,
                            !.ret = IF ok THEN Returned([success |-> TRUE])
                                    ELSE Threw(error)],
          snap |-> lsData]
    [] p = "sync" ->
         IF ok
         THEN SyncFrom([pr EXCEPT !.results = (SyncKey(pr.step) :> Normalize(pr.step, value)) @@ @],
                       pr.step + 1, storeOk, t)
         ELSE [pr |-> SyncFail(pr, error), snap |-> lsData]

\* A syncData that catches the failure of a fetch and goes on to the next.
ResumeSyncGoesOn(p, pr, ok, value, error, storeOk, t) ==
  CASE p = "api" ->
         [pr |-> [pr EXCEPT !.pc = "done",
                            !.ret = IF ok THEN Returned(value) ELSE Threw(error)],
          snap |-> lsData]
    [] p = "test" ->
         [pr |-> [pr EXCEPT !.pc = "done",
                            !.caught = IF ok THEN NoError ELSE error,
                            !.ret = IF ok THEN Returned([success |-> TRUE])
                                    ELSE Returned([success |-> FALSE,
                                                   error |-> handleQuickBooksError(error)])],
          snap |-> lsData]
    [] p = "sync" ->
         IF ok
         THEN SyncFrom([pr EXCEPT !.results = (SyncKey(pr.step) :> Normalize(pr.step, value)) @@ @],
                       pr.step + 1, storeOk, t)
         ELSE SyncFrom(pr, pr.step + 1, storeOk, t)

\* What the caller of a read operation does when the operation returns
\* (ok, value) or throws (error): the direct caller keeps the outcome,
\* testConnection turns it into a result, syncData stores the normalized
\* payload and goes on.
Resume(p, pr, ok, value, error, storeOk, t) ==
  CASE p = "api" ->
         [pr |-> [pr EXCEPT !.pc = "done",
                            !.ret = IF ok THEN Returned(value) ELSE Threw(error)],
          snap |-> lsData]
    [] p = "test" ->
         [pr |-> [pr EXCEPT !.pc = "done",
                            !.caught = IF ok THEN NoError ELSE error,
                            !.ret = IF ok THEN Returned([success |-> TRUE])
                                    ELSE Returned([success |-> FALSE,
                                                   error |-> handleQuickBooksError(error)])],
          snap |-> lsData]
    [] p = "sync" ->
         IF ok
         THEN SyncFrom([pr EXCEPT !.results = (SyncKey(pr.step) :> Normalize(pr.step, value)) @@ @],
                       pr.step + 1, storeOk, t)
         ELSE [pr |-> SyncFail(pr, error), snap |-> lsData]

\* No call is in flight: the callers of this specification await each call
\* before they make the next.
Quiet == \A p \in Procs : proc[p].pc \in {"idle", "done"}

\* The activation of p replaces the previous ones.
Only(p, pr) == [q \in Procs |-> IF q = p THEN pr ELSE IdleProc]

\* The argument pairs a direct caller passes to each read operation.
ArgsOf(op) ==
  IF op \in DatedOps THEN StartDates \X EndDates
  ELSE IF op \in {"getProfitAndLossReport", "getCashFlowReport"}
       THEN (StartDates \ {""}) \X (EndDates \ {""})
  ELSE IF op = "getBalanceSheetReport" THEN {""} \X (EndDates \ {""})
  ELSE {<<"", "">>}

\* The callback route between requests: nothing received, nothing answered,
\* and a browser that holds no cookie of the route.
NoRequest == [code |-> "", state |-> "", realmId |-> ""]

NoResponse == [kind |-> "none"]

NoCookie == [name |-> "none"]

\* flow is the state of the authorization URL the browser was last sent to,
\* "" before any.
IdleCallback ==
  [pc |-> "idle", req |-> NoRequest, posts |-> <<>>, resp |-> NoResponse,
   jar |-> NoCookie, flow |-> ""]

\* No normalizer has been applied yet.
NotApplied == [op |-> "none", input |-> <<>>, output |-> <<>>]

\* The state of the integration page: its useState hooks as first rendered,
\* before the mount effect has run.
NoResult == [success |-> "null"]

NoTime == [present |-> FALSE, at |-> 0]

Status(status, errorType) == [status |-> status, errorType |-> errorType]

DefaultOptions ==
  [syncAccounts |-> TRUE, syncCustomers |-> TRUE, syncInvoices |-> TRUE,
   syncBills |-> TRUE, syncPayments |-> TRUE, syncReports |-> TRUE,
   startDate |-> "2024-01-01", endDate |-> "2024-06-01"]

InitialPage ==
  [mounted |-> FALSE, isConnected |-> FALSE, authData |-> NoBundle,
   connectionStatus |-> Status("checking", "none"), syncOptions |-> DefaultOptions,
   isSyncing |-> FALSE, syncResult |-> NoResult, lastSyncedAt |-> NoTime,
   activeTab |-> "connect"]

(* ------------------------------- actions ------------------------------- *)

Init ==
  /\ now = 0
  /\ books \in BookNames
  /\ \E lifetime \in Lifetimes :
       /\ grants = <<[at |-> 0, expires_in |-> lifetime]>>
       /\ lsAuth = Bundle(1, 1, lifetime)
  /\ lsData = EarlierSnapshot
  /\ proc = [p \in Procs |-> IdleProc]
  /\ cb = IdleCallback
  /\ fn = NotApplied
  /\ page = InitialPage

\* A second passes.
Tick ==
  /\ now < MaxTicks * 1000
  /\ now' = now + 1000
  /\ UNCHANGED <<grants, books, lsAuth, lsData, proc>>

\* A caller builds a client from the stored bundle.
NewClient ==
  /\ Quiet
  /\ lsAuth.present
  /\ proc' = Only("api", [IdleProc EXCEPT !.client = Construct(lsAuth, now)])
  /\ UNCHANGED <<now, grants, books, lsAuth, lsData>>

\* The caller invokes one read operation of its client.
CallRead ==
  /\ Quiet
  /\ proc["api"].client.live
  /\ \E op \in ReadOps : \E args \in ArgsOf(op) :
       proc' = Only("api", StartRead([IdleProc EXCEPT !.client = proc["api"].client],
                                     op, args[1], args[2], now))
  /\ UNCHANGED <<now, grants, books, lsAuth, lsData>>

\* The page's connection test: a new client from the stored bundle, then
\* api.testConnection(), which calls getCompanyInfo.
TestConnection ==
  /\ Quiet
  /\ lsAuth.present
  /\ proc' = Only("test", StartRead([IdleProc EXCEPT !.client = Construct(lsAuth, now)],
                                    "getCompanyInfo", "", "", now))
  /\ UNCHANGED <<now, grants, books, lsAuth, lsData>>

\* The page's sync: a new client from the stored bundle, then
\* dataSync.syncData(options), up to its first await.
HandleSyncData ==
  /\ Quiet
  /\ lsAuth.present
  /\ \E opts \in SyncOptionsSet, storeOk \in BOOLEAN :
       LET r == SyncFrom([IdleProc EXCEPT !.client = Construct(lsAuth, now), !.opts = opts],
                         1, storeOk, now)
       IN  /\ proc' = Only("sync", r.pr)
           /\ lsData' = r.snap
  /\ UNCHANGED <<now, grants, books, lsAuth>>

\* The token endpoint rejects the refresh, or the POST fails: the error goes up
\* through refreshAccessToken, ensureValidToken and the read operation.
RefreshFails(p) ==
  /\ proc[p].pc = "refresh"
  /\ \E status \in ErrStatuses :
       LET r == Resume(p, Logged(proc[p], "refresh_fail"), FALSE, <<>>,
                       TransportError(status), FALSE, now)
       IN  /\ proc' = [proc EXCEPT ![p] = r.pr]
           /\ lsData' = r.snap
  /\ UNCHANGED <<now, grants, books, lsAuth>>

\* The token endpoint grants a new access token (and, when it rotates, a new
\* refresh token): the client takes them, writes the bundle to the store, and
\* the read operation sends its GET; a store that refuses the write throws.
RefreshGranted(p) ==
  /\ proc[p].pc = "refresh"
  /\ Len(grants) < MaxGrants
  /\ \E lifetime \in Lifetimes, rotate \in BOOLEAN, persistOk \in BOOLEAN :
       LET token == Len(grants) + 1
           client == Refreshed(proc[p].client, token, IF rotate THEN token ELSE 0,
                               lifetime, now)
           pr == Logged([proc[p] EXCEPT !.client = client], "refresh_ok")
           r == Resume(p, Logged(pr, "persist_fail"), FALSE, <<>>,
                       StorageErrorValue, FALSE, now)
       IN  /\ grants' = Append(grants, [at |-> now, expires_in |-> lifetime])
           /\ IF persistOk
              THEN /\ lsAuth' = Bundle(client.accessToken, client.refreshToken, lifetime)
                   /\ proc' = [proc EXCEPT ![p] = SendGet(pr)]
                   /\ UNCHANGED lsData
              ELSE /\ proc' = [proc EXCEPT ![p] = r.pr]
                   /\ lsData' = r.snap
                   /\ UNCHANGED lsAuth
  /\ UNCHANGED <<now, books>>

\* The GET fails: the read operation rethrows what axios threw.
GetFails(p) ==
  /\ proc[p].pc = "get"
  /\ \E status \in ErrStatuses :
       LET r == Resume(p, Logged(proc[p], "get_fail"), FALSE, <<>>,
                       TransportError(status), FALSE, now)
       IN  /\ proc' = [proc EXCEPT ![p] = r.pr]
           /\ lsData' = r.snap
  /\ UNCHANGED <<now, grants, books, lsAuth>>

\* The GET answers: the read operation returns response.data to its caller.
GetAnswers(p) ==
  /\ proc[p].pc = "get"
  /\ \E storeOk \in BOOLEAN :
       LET r == Resume(p, Logged(proc[p], "get_ok"), TRUE, Answer(books, proc[p].op),
                       NoError, storeOk, now)
       IN  /\ proc' = [proc EXCEPT ![p] = r.pr]
           /\ lsData' = r.snap
  /\ UNCHANGED <<now, grants, books, lsAuth>>

\* A caller of the client: it builds a client, calls its read operations one
\* after another, and tests the connection.
Next ==
  \/ Tick /\ UNCHANGED <<cb, fn, page>>
  \/ NewClient /\ UNCHANGED <<cb, fn, page>>
  \/ CallRead /\ UNCHANGED <<cb, fn, page>>
  \/ TestConnection /\ UNCHANGED <<cb, fn, page>>
  \/ \E p \in Procs : RefreshFails(p) /\ UNCHANGED <<cb, fn, page>>
  \/ \E p \in Procs : RefreshGranted(p) /\ UNCHANGED <<cb, fn, page>>
  \/ \E p \in Procs : GetFails(p) /\ UNCHANGED <<cb, fn, page>>
  \/ \E p \in Procs : GetAnswers(p) /\ UNCHANGED <<cb, fn, page>>

Spec == Init /\ [][Next]_vars

\* One sync, from a store that holds the bundle and any earlier snapshot.
FirstSync == proc["sync"].pc = "idle" /\ HandleSyncData

NextSync ==
  \/ Tick /\ UNCHANGED <<cb, fn, page>>
  \/ FirstSync /\ UNCHANGED <<cb, fn, page>>
  \/ \E p \in Procs : RefreshFails(p) /\ UNCHANGED <<cb, fn, page>>
  \/ \E p \in Procs : RefreshGranted(p) /\ UNCHANGED <<cb, fn, page>>
  \/ \E p \in Procs : GetFails(p) /\ UNCHANGED <<cb, fn, page>>
  \/ \E p \in Procs : GetAnswers(p) /\ UNCHANGED <<cb, fn, page>>

SpecSync == Init /\ [][NextSync]_vars

(* --------------------------- the OAuth callback ------------------------ *)

\* What the vendor's redirect may carry in each query parameter; "" is a
\* parameter that is absent or empty (searchParams.get gives null or "",
\* both falsy).
Codes == {"", "code-1", "code-2"}

States == {"", "state-1"}

RealmIds == {"", "realm-1", "realm-2"}

Requests == [code : Codes, state : States, realmId : RealmIds]

\* The bodies the token endpoint may answer an exchange with.
TokenResponses ==
  [access_token : {"access-1", "access-2"}, refresh_token : {"refresh-1"},
   expires_in : Lifetimes]

\* maxAge: 60 * 60 * 24 * 30
CookieMaxAgeS == 2592000

\* The message of a classified error, read by the callback as qbError.message.
ErrorMessage(qbError) == "QuickBooks error: " \o qbError.type

\* if (!code || !state || !realmId)
MissingParametersCodeOnly(req) == req.code = ""

MissingParameters(req) == req.code = "" \/ req.state = "" \/ req.realmId = ""

\* NextResponse.json({ error: "Missing required parameters" }, { status: 400 })
MissingParametersResponse ==
  [kind |-> "json", status |-> 400,
   body |-> [error |-> "Missing required parameters"], cookie |-> NoCookie]

\* The body of the token exchange POST.
ExchangeRequest(req) ==
  [grant_type |-> "authorization_code", code |-> req.code,
   redirect_uri |-> "QB_CONFIG.redirectUri"]

\* The try block after the exchange has answered: the bundle, the redirect to
\* the success page and the cookie set on it.
ConnectedResponseFixedRealm(req, data) ==
  [kind |-> "redirect", location |-> "/integrations/quickbooks/connected",
   query |-> <<>>,
   cookie |-> [name |-> "qb_auth_data",
               value |-> [accessToken |-> data.access_token,
                          refreshToken |-> data.refresh_token,
                          expiresIn |-> data.expires_in,
                          realmId |-> RealmId],
               httpOnly |-> TRUE, maxAge |-> CookieMaxAgeS, path |-> "/"]]

ConnectedResponse(req, data) ==
  [kind |-> "redirect", location |-> "/integrations/quickbooks/connected",
   query |-> <<>>,
   cookie |-> [name |-> "qb_auth_data",
               value |-> [accessToken |-> data.access_token,
                          refreshToken |-> data.refresh_token,
                          expiresIn |-> data.expires_in,
                          realmId |-> req.realmId],
               httpOnly |-> TRUE, maxAge |-> CookieMaxAgeS, path |-> "/"]]

\* The catch block: the redirect to the error page.
ErrorResponse(error) ==
  LET qbError == handleQuickBooksError(error) IN
  [kind |-> "redirect", location |-> "/integrations/quickbooks/error",
   query |-> [type |-> qbError.type, message |-> ErrorMessage(qbError)],
   cookie |-> NoCookie]

\* The browser keeps the cookie a response sets, and its earlier one otherwise.
JarAfter(jar, resp) == IF resp.cookie = NoCookie THEN jar ELSE resp.cookie

\* What generateRandomState may return.
GeneratedStates == {"state-1", "state-2"}

\* The query of the authorization URL.
getQuickBooksAuthUrl(state) ==
  [client_id |-> "QB_CONFIG.clientId", response_type |-> "code",
   scope |-> "com.intuit.quickbooks.accounting com.intuit.quickbooks.payment",
   redirect_uri |-> "QB_CONFIG.redirectUri", state |-> state]

\* handleConnect: the browser is sent to the authorization URL; the state
\* generated for it is written nowhere (storeOAuthState has no caller).
HandleConnect ==
  /\ cb.pc # "exchange"
  /\ \E state \in GeneratedStates :
       /\ state # cb.flow
       /\ cb' = [cb EXCEPT !.flow = getQuickBooksAuthUrl(state).state]
  /\ UNCHANGED <<now, grants, books, lsAuth, lsData, proc, fn, page>>

\* GET up to its first await: a request is answered at once with 400, or the
\* exchange is posted.
CallbackGET ==
  /\ cb.pc # "exchange"
  /\ \E req \in Requests :
       cb' = IF MissingParameters(req)
             THEN [pc |-> "done", req |-> req, posts |-> <<>>,
                   resp |-> MissingParametersResponse,
                   jar |-> JarAfter(cb.jar, MissingParametersResponse),
                   flow |-> cb.flow]
             ELSE [pc |-> "exchange", req |-> req,
                   posts |-> <<ExchangeRequest(req)>>, resp |-> NoResponse,
                   jar |-> cb.jar, flow |-> cb.flow]
  /\ UNCHANGED <<now, grants, books, lsAuth, lsData, proc, fn, page>>

\* The token endpoint answers the exchange.
ExchangeGranted ==
  /\ cb.pc = "exchange"
  /\ \E data \in TokenResponses :
       LET resp == ConnectedResponse(cb.req, data) IN
       cb' = [cb EXCEPT !.pc = "done", !.resp = resp,
                        !.jar = JarAfter(cb.jar, resp)]
  /\ UNCHANGED <<now, grants, books, lsAuth, lsData, proc, fn, page>>

\* The exchange fails: axios.post rejects.
ExchangeFails ==
  /\ cb.pc = "exchange"
  /\ \E status \in ErrStatuses :
       LET resp == ErrorResponse(TransportError(status)) IN
       cb' = [cb EXCEPT !.pc = "done", !.resp = resp,
                        !.jar = JarAfter(cb.jar, resp)]
  /\ UNCHANGED <<now, grants, books, lsAuth, lsData, proc, fn, page>>

NextCallback == HandleConnect \/ CallbackGET \/ ExchangeGranted \/ ExchangeFails

SpecCallback == Init /\ [][NextCallback]_vars

(* ----------------------- the normalizers on their own ------------------ *)

\* Amounts the vendor may report: zero, positive, and negative (a credit).
Amounts == -1..MaxAmount

Refs(values, names) ==
  {NoRef} \cup {Ref(v[1], v[2]) : v \in values \X names}

\* hasLine, Line of an invoice or bill: no Line, an empty one, one line.
LineChoices ==
  {<<FALSE, <<>>>>, <<TRUE, <<>>>>, <<TRUE, <<Line("Widget", 1, 2, 3)>>>>}

AccountInputs ==
  [Id : {"1"}, Name : {"Checking"}, AccountType : {"Bank"},
   AccountSubType : {"Checking"}, CurrentBalance : Amounts, Active : BOOLEAN]

CustomerInputs ==
  [Id : {"10"}, DisplayName : {"Acme"}, CompanyName : {"Acme Inc"},
   PrimaryEmailAddr : Refs({"a@acme.test"}, {"undefined"}),
   PrimaryPhone : Refs({"555-0100"}, {"undefined"}),
   Balance : Amounts, Active : BOOLEAN]

InvoiceInputs ==
  { [Id |-> "100", CustomerRef |-> ref, TxnDate |-> "2024-02-01",
     DueDate |-> "2024-03-01", TotalAmt |-> total, Balance |-> balance,
     hasLine |-> lines[1], Line |-> lines[2]] :
      ref \in Refs({"10"}, {"Acme"}), total \in Amounts, balance \in Amounts,
      lines \in LineChoices }

BillInputs ==
  { [Id |-> "200", VendorRef |-> ref, TxnDate |-> "2024-02-03",
     DueDate |-> "2024-03-03", TotalAmt |-> total, Balance |-> balance,
     hasLine |-> lines[1], Line |-> lines[2]] :
      ref \in Refs({"20"}, {"Supplier"}), total \in Amounts, balance \in Amounts,
      lines \in LineChoices }

PaymentInputs ==
  [Id : {"300"}, CustomerRef : Refs({"10"}, {"Acme"}), TxnDate : {"2024-02-05"},
   TotalAmt : Amounts, PaymentMethodRef : Refs({"1"}, {"Check"})]

Categories == {"accounts", "customers", "invoices", "bills", "payments"}

RecordInputs(category) ==
  CASE category = "accounts" -> AccountInputs
    [] category = "customers" -> CustomerInputs
    [] category = "invoices" -> InvoiceInputs
    [] category = "bills" -> BillInputs
    [] category = "payments" -> PaymentInputs

\* The entity lists of at most MaxItems records.
ListsOf(records) == UNION {[1..n -> records] : n \in 0..MaxItems}

\* The payloads a normalizer may be handed: a response with its entity list,
\* and responses that lack the body, the QueryResponse or the list, for which
\* items stands for whatever reading the missing list would give.
PayloadInputs(category) ==
  {Payload(TRUE, TRUE, TRUE, items) : items \in ListsOf(RecordInputs(category))}
    \cup {Payload(f[1], f[2], f[3], items) :
            f \in (BOOLEAN \X BOOLEAN \X BOOLEAN) \ {<<TRUE, TRUE, TRUE>>},
            items \in {<<>>} \cup [1..1 -> {CHOOSE r \in RecordInputs(category) : TRUE}]}

Process(category, data) ==
  CASE category = "accounts" -> processAccounts(data)
    [] category = "customers" -> processCustomers(data)
    [] category = "invoices" -> processInvoices(data)
    [] category = "bills" -> processBills(data)
    [] category = "payments" -> processPayments(data)

\* One normalizer is applied to one payload.
Apply(category) ==
  /\ fn = NotApplied
  /\ page = InitialPage
  /\ \E data \in PayloadInputs(category) :
       fn' = [op |-> category, input |-> data, output |-> Process(category, data)]
  /\ UNCHANGED <<now, grants, books, lsAuth, lsData, proc, cb, page>>

NextNormalize ==
  \/ Apply("accounts")
  \/ Apply("customers")
  \/ Apply("invoices")
  \/ Apply("bills")
  \/ Apply("payments")

SpecNormalize == Init /\ [][NextNormalize]_vars

(* -------------------------- the integration page ----------------------- *)

\* The tabs whose handlers are followed; the Settings tab changes nothing here.
Tabs == {"connect", "sync", "troubleshoot"}

\* The options the user changes on the Sync Data tab.
ChangedOptions == {"syncReports"}

\* A request of the activation is awaiting its answer.
InFlight(pr) == pr.pc \in {"refresh", "get"}

\* testConnection after api.testConnection() has returned result.
TestSettled(pg, result) ==
  [pg EXCEPT !.connectionStatus =
     IF result.success THEN Status("connected", "none")
     ELSE Status("error", result.error.type)]

\* handleSyncData after syncData has returned result, at instant t.
SyncSettled(pg, result, t) ==
  [pg EXCEPT !.syncResult = result,
             !.lastSyncedAt = IF result.success THEN [present |-> TRUE, at |-> t] ELSE @,
             !.isSyncing = FALSE]

\* The page after a step of the activation p that left it as pr.
Settled(pg, p, pr, t) ==
  IF pr.pc # "done" THEN pg
  ELSE IF p = "test" THEN TestSettled(pg, pr.ret.value)
  ELSE IF p = "sync" THEN SyncSettled(pg, pr.ret.value, t)
  ELSE pg

\* testConnection(authDataToUse) up to its await: the status is set to
\* checking, a client is built and api.testConnection() calls getCompanyInfo;
\* without a bundle the constructor throws and the catch block sets the error.
StartTest(pg, authDataToUse, t) ==
  IF authDataToUse.present
  THEN [page |-> [pg EXCEPT !.connectionStatus = Status("checking", "none")],
        pr |-> StartRead([IdleProc EXCEPT !.client = Construct(authDataToUse, t)],
                         "getCompanyInfo", "", "", t)]
  ELSE [page |-> [pg EXCEPT !.connectionStatus = Status("error", "UNKNOWN")],
        pr |-> IdleProc]

\* The mount effect: the stored bundle and snapshot are read, and with a
\* bundle the connection is tested.
Mount ==
  /\ ~page.mounted
  /\ ~InFlight(proc["test"])
  /\ LET pg == [page EXCEPT !.mounted = TRUE,
                            !.lastSyncedAt = IF lsData.present
                                             THEN [present |-> TRUE, at |-> lsData.syncedAt]
                                             ELSE @]
         r == StartTest([pg EXCEPT !.authData = lsAuth, !.isConnected = TRUE], lsAuth, now)
     IN  IF lsAuth.present
         THEN /\ page' = r.page
              /\ proc' = [proc EXCEPT !["test"] = r.pr]
         ELSE /\ page' = [pg EXCEPT !.connectionStatus = Status("error", "AUTHENTICATION")]
              /\ UNCHANGED proc
  /\ UNCHANGED <<now, grants, books, lsAuth, lsData, cb, fn>>

\* A tab is chosen; its trigger is enabled.
SetActiveTab ==
  /\ page.mounted
  /\ \E tab \in Tabs \ {page.activeTab} :
       /\ tab = "sync" => (page.isConnected /\ page.connectionStatus.status = "connected")
       /\ tab = "troubleshoot" => page.isConnected
       /\ page' = [page EXCEPT !.activeTab = tab]
  /\ UNCHANGED <<now, grants, books, lsAuth, lsData, proc, cb, fn>>

\* A Test Connection button is clicked: the one of the Connect tab (shown when
\* connected in state but not in status) or the one of the Troubleshoot tab.
\* One connection test is followed at a time.
ClickTestConnection ==
  /\ page.mounted
  /\ \/ /\ page.activeTab = "connect"
        /\ page.connectionStatus.status # "connected"
        /\ page.isConnected
     \/ page.activeTab = "troubleshoot"
  /\ ~InFlight(proc["test"])
  /\ LET r == StartTest(page, page.authData, now) IN
       /\ page' = r.page
       /\ proc' = [proc EXCEPT !["test"] = r.pr]
  /\ UNCHANGED <<now, grants, books, lsAuth, lsData, cb, fn>>

\* handleSyncOptionChange(option, value)
HandleSyncOptionChange ==
  /\ page.mounted
  /\ page.activeTab = "sync"
  /\ \E option \in ChangedOptions, value \in BOOLEAN :
       /\ page.syncOptions[option] # value
       /\ page' = [page EXCEPT !.syncOptions[option] = value]
  /\ UNCHANGED <<now, grants, books, lsAuth, lsData, proc, cb, fn>>

\* Sync Data Now is clicked (the button is disabled while isSyncing):
\* handleSyncData up to the first await of syncData.
ClickSyncData ==
  /\ page.mounted
  /\ page.activeTab = "sync"
  /\ ~page.isSyncing
  /\ page.authData.present
  /\ \E storeOk \in BOOLEAN :
       LET r == SyncFrom([IdleProc EXCEPT !.client = Construct(page.authData, now),
                                          !.opts = page.syncOptions],
                         1, storeOk, now)
           pg == [page EXCEPT !.isSyncing = TRUE, !.syncResult = NoResult]
       IN  /\ proc' = [proc EXCEPT !["sync"] = r.pr]
           /\ lsData' = r.snap
           /\ page' = Settled(pg, "sync", r.pr, now)
  /\ UNCHANGED <<now, grants, books, lsAuth, cb, fn>>

\* handleDisconnect: Disconnect on the Connect tab (shown when connected) or
\* Disconnect and Reconnect on the Troubleshoot tab.
HandleDisconnect ==
  /\ page.mounted
  /\ \/ page.activeTab = "connect" /\ page.connectionStatus.status = "connected"
     \/ page.activeTab = "troubleshoot"
  /\ lsAuth' = NoBundle
  /\ lsData' = NoSnapshot
  /\ page' = [page EXCEPT !.authData = NoBundle, !.isConnected = FALSE,
                          !.syncResult = NoResult, !.lastSyncedAt = NoTime,
                          !.connectionStatus = Status("error", "AUTHENTICATION")]
  /\ UNCHANGED <<now, grants, books, proc, cb, fn>>

\* An answer of the vendor reaches the activation that awaits it, and the
\* handler that awaited the activation goes on when it has returned.
PageRefreshFails(p) ==
  /\ RefreshFails(p)
  /\ page' = Settled(page, p, proc'[p], now)
  /\ UNCHANGED <<cb, fn>>

PageRefreshGranted(p) ==
  /\ RefreshGranted(p)
  /\ page' = Settled(page, p, proc'[p], now)
  /\ UNCHANGED <<cb, fn>>

PageGetFails(p) ==
  /\ GetFails(p)
  /\ page' = Settled(page, p, proc'[p], now)
  /\ UNCHANGED <<cb, fn>>

PageGetAnswers(p) ==
  /\ GetAnswers(p)
  /\ page' = Settled(page, p, proc'[p], now)
  /\ UNCHANGED <<cb, fn>>

\* The page is followed within one instant: a bundle at the refresh margin
\* has every call refresh, one above the margin none.
NextPage ==
  \/ Mount
  \/ SetActiveTab
  \/ ClickTestConnection
  \/ HandleSyncOptionChange
  \/ ClickSyncData
  \/ HandleDisconnect
  \/ \E p \in {"test", "sync"} : PageRefreshFails(p)
  \/ \E p \in {"test", "sync"} : PageRefreshGranted(p)
  \/ \E p \in {"test", "sync"} : PageGetFails(p)
  \/ \E p \in {"test", "sync"} : PageGetAnswers(p)

SpecPage == Init /\ [][NextPage]_vars

(* ------------------------------- claims -------------------------------- *)

\* The places of the log of pr that hold event ev of the operation op.
EventsOf(pr, op, ev) == {i \in DOMAIN pr.log : pr.log[i].op = op /\ pr.log[i].ev = ev}

\* A vendor call of the activation failed.
VendorFailure(pr) ==
  \E i \in DOMAIN pr.log : pr.log[i].ev \in {"refresh_fail", "get_fail"}

\* A read operation of pr has been entered.
InRead(pr) == pr.op \in ReadOps

\* C1: a read operation entered with less than 300000 ms left on the token
\* sends exactly one refresh request, and sends its data request only after
\* that refresh has completed.
C1_OneRefreshBeforeData ==
  \A p \in Procs :
    LET pr == proc[p]
    IN  (InRead(pr) /\ pr.left < 300000) =>
          /\ Cardinality(EventsOf(pr, pr.op, "refresh_sent")) = 1
          /\ \A g \in EventsOf(pr, pr.op, "get_sent") :
               \E r \in EventsOf(pr, pr.op, "refresh_ok") :
                 /\ r < g
                 /\ \A s \in EventsOf(pr, pr.op, "refresh_sent") : s < r

\* A read operation entered with less than 300000 ms left has refreshed, sent
\* its data request and returned the payload.
C1_Witness ==
  \E p \in Procs :
    /\ InRead(proc[p]) /\ proc[p].left < 300000
    /\ proc[p].pc = "done" /\ proc[p].ret.kind = "returned"
    /\ EventsOf(proc[p], proc[p].op, "get_ok") # {}

\* C2: a read operation entered with 300000 ms or more left on the token
\* (300000 itself included) sends no refresh request.
C2_NoRefreshFromMargin ==
  \A p \in Procs :
    LET pr == proc[p]
    IN  (InRead(pr) /\ pr.left >= 300000) =>
          EventsOf(pr, pr.op, "refresh_sent") = {}

\* C3: when refreshAccessToken has thrown, at whatever step, the client's
\* tokens and expiry and the stored bundle are as the attempt found them.
C3_FailedRefreshChangesNothing ==
  \A p \in Procs :
    LET pr == proc[p]
    IN  (pr.log # <<>> /\ pr.log[Len(pr.log)].ev \in {"refresh_fail", "persist_fail"}) =>
          /\ pr.client = pr.pre.client
          /\ lsAuth = pr.pre.ls

\* C4: a read operation that fails delivers a classified error to its caller,
\* never the raw transport error.
C4_FailureIsClassified ==
  proc["api"].ret.kind = "threw" =>
    /\ proc["api"].ret.value.kind = "classified"
    /\ proc["api"].ret.value.type \in ErrorTypes

\* C5: a client's expiry instant is the instant the vendor issued its access
\* token plus the lifetime the vendor reported for it.
C5_ExpiryIsIssuePlusLifetime ==
  \A p \in Procs :
    LET client == proc[p].client
    IN  client.live =>
          client.tokenExpiresAt =
            grants[client.accessToken].at + grants[client.accessToken].expires_in * 1000

SyncFailure ==
  Returned([success |-> FALSE, error |-> "Failed to sync data from QuickBooks"])

\* C6: syncData never throws, and once a fetch of the sync has failed it has
\* returned {success: false, error: <message>}, with no data of any category.
C6_FailedFetchFailsWhole ==
  LET pr == proc["sync"]
  IN  /\ pr.pc = "done" => pr.ret.kind = "returned"
      /\ (VendorFailure(pr) \/ pr.caught # NoError) =>
           /\ pr.pc = "done"
           /\ pr.ret = SyncFailure
           /\ DOMAIN pr.ret.value = {"success", "error"}

\* A sync failed on a later fetch after an earlier category was fetched.
C6_Witness ==
  LET pr == proc["sync"]
  IN  /\ pr.pc = "done" /\ pr.ret = SyncFailure
      /\ pr.log # <<>> /\ pr.log[Len(pr.log)].ev = "get_fail"
      /\ EventsOf(pr, "getAccounts", "get_ok") # {}

\* C7: the stored snapshot changes only when every enabled fetch of the sync
\* has answered, and a sync that returned success: false left it as it was.
C7_SnapshotOnlyAfterAllFetches ==
  LET pr == proc["sync"]
  IN  /\ lsData # EarlierSnapshot =>
           /\ pr.pc = "done" /\ pr.ret.kind = "returned" /\ pr.ret.value.success
           /\ \A k \in SyncSteps :
                StepEnabled(pr.opts, k) => EventsOf(pr, SyncMethod(k), "get_ok") # {}
           /\ lsData.present /\ lsData.data = pr.ret.value.data
      /\ (pr.pc = "done" /\ pr.ret.kind = "returned" /\ ~pr.ret.value.success) =>
           lsData = EarlierSnapshot

\* A sync that fetched two categories wrote their snapshot over the earlier
\* one.
C7_Witness ==
  LET pr == proc["sync"]
  IN  /\ pr.pc = "done" /\ pr.ret.kind = "returned" /\ pr.ret.value.success
      /\ lsData # EarlierSnapshot
      /\ DOMAIN lsData.data = {"accounts", "invoices"}

\* C8: a sync whose vendor calls all succeeded (and whose snapshot the store
\* accepted) returns data with the key of each of the five categories exactly
\* when its flag is set, each holding the normalized vendor payload.
C8_KeysFollowFlags ==
  LET pr == proc["sync"]
  IN  (pr.pc = "done" /\ ~VendorFailure(pr) /\ pr.caught.kind # "storage") =>
        /\ pr.ret.kind = "returned" /\ pr.ret.value.success
        /\ \A k \in 1..5 :
             /\ SyncKey(k) \in DOMAIN pr.ret.value.data <=> StepEnabled(pr.opts, k)
             /\ StepEnabled(pr.opts, k) =>
                  pr.ret.value.data[SyncKey(k)] = Normalize(k, Answer(books, SyncMethod(k)))

ReportKeys == {"profitAndLoss", "balanceSheet", "cashFlow"}

\* C9: with the reports flag set and both dates present, a sync whose vendor
\* calls all succeeded (and whose snapshot the store accepted) returns success
\* with the three report bodies as the vendor returned them.
C9_ReportsFetched ==
  LET pr == proc["sync"]
  IN  (/\ pr.pc = "done" /\ ~VendorFailure(pr) /\ pr.caught.kind # "storage"
       /\ pr.opts.syncReports /\ pr.opts.startDate # "" /\ pr.opts.endDate # "") =>
        /\ pr.ret.kind = "returned" /\ pr.ret.value.success
        /\ ReportKeys \subseteq DOMAIN pr.ret.value.data
        /\ pr.ret.value.data["profitAndLoss"] = ReportAnswer(books, "ProfitAndLoss")
        /\ pr.ret.value.data["balanceSheet"] = ReportAnswer(books, "BalanceSheet")
        /\ pr.ret.value.data["cashFlow"] = ReportAnswer(books, "CashFlow")

\* C10: with the reports flag set and a date absent, the sync sends no report
\* request at any point, and neither its results nor what it returns holds a
\* report key.
C10_NoReportsWithoutDates ==
  LET pr == proc["sync"]
  IN  (pr.opts.syncReports /\ (pr.opts.startDate = "" \/ pr.opts.endDate = "")) =>
        /\ \A i \in DOMAIN pr.log :
             pr.log[i].op \notin {"getProfitAndLossReport", "getBalanceSheetReport",
                                  "getCashFlowReport", "getBalanceSheet",
                                  "getCashFlowStatement"}
        /\ DOMAIN pr.results \cap ReportKeys = {}
        /\ (pr.pc = "done" /\ pr.ret.value.success) =>
             DOMAIN pr.ret.value.data \cap ReportKeys = {}

\* A sync with the reports flag set and no end date fetched its payments and
\* returned success.
C10_Witness ==
  LET pr == proc["sync"]
  IN  /\ pr.opts.syncReports /\ pr.opts.startDate # "" /\ pr.opts.endDate = ""
      /\ pr.pc = "done" /\ pr.ret.value.success
      /\ EventsOf(pr, "getPayments", "get_ok") # {}

\* C11: a callback request that lacks code, state or realmId is answered 400,
\* with no token exchange posted and no credential cookie set.
C11_MissingParameterRejected ==
  (cb.pc # "idle" /\ (cb.req.code = "" \/ cb.req.state = "" \/ cb.req.realmId = ""))
    => /\ cb.pc = "done"
       /\ cb.resp.kind = "json"
       /\ cb.resp.status = 400
       /\ cb.posts = <<>>
       /\ cb.resp.cookie = NoCookie

\* A request that carries a code and a realm but no state has been answered.
C11_Witness ==
  /\ cb.pc = "done"
  /\ cb.req.code # "" /\ cb.req.realmId # "" /\ cb.req.state = ""
  /\ cb.resp.status = 400

\* C12: a callback request that carries all three parameters is answered, when
\* the exchange succeeds, by a redirect to the success page that sets the
\* cookie qb_auth_data to {accessToken, refreshToken, expiresIn, realmId} with
\* the realmId of the request, and when the exchange fails by a redirect to
\* the error page with the error type and message in the query and no cookie.
C12_ExchangeOutcomeRedirects ==
  (cb.pc = "done" /\ cb.req.code # "" /\ cb.req.state # "" /\ cb.req.realmId # "")
    => /\ Len(cb.posts) = 1
       /\ cb.posts[1].grant_type = "authorization_code"
       /\ cb.posts[1].code = cb.req.code
       /\ cb.resp.kind = "redirect"
       /\ \/ /\ cb.resp.location = "/integrations/quickbooks/connected"
             /\ cb.resp.cookie.name = "qb_auth_data"
             /\ DOMAIN cb.resp.cookie.value
                  = {"accessToken", "refreshToken", "expiresIn", "realmId"}
             /\ cb.resp.cookie.value.realmId = cb.req.realmId
             /\ \E data \in TokenResponses :
                  /\ cb.resp.cookie.value.accessToken = data.access_token
                  /\ cb.resp.cookie.value.refreshToken = data.refresh_token
                  /\ cb.resp.cookie.value.expiresIn = data.expires_in
             /\ cb.jar = cb.resp.cookie
          \/ /\ cb.resp.location = "/integrations/quickbooks/error"
             /\ DOMAIN cb.resp.query = {"type", "message"}
             /\ cb.resp.cookie = NoCookie

\* An exchange has failed in a browser that holds the cookie an earlier
\* exchange set for a realm other than the one of the store.
C12_Witness ==
  /\ cb.pc = "done"
  /\ cb.req.code # "" /\ cb.req.state # "" /\ cb.req.realmId # ""
  /\ cb.resp.kind = "redirect"
  /\ cb.resp.location = "/integrations/quickbooks/error"
  /\ cb.jar # NoCookie
  /\ cb.jar.value.realmId = "realm-2"

\* C13: the status of a normalized invoice is "Paid" exactly when its balance
\* is 0, "Unpaid" exactly when its balance equals its total and is not 0, and
\* "Partial" otherwise.
C13_InvoiceStatus ==
  fn.op = "invoices" =>
    \A i \in DOMAIN fn.output :
      LET invoice == fn.input.items[i]
          status == fn.output[i].status
      IN  /\ fn.output[i].balance = invoice.Balance
          /\ fn.output[i].total = invoice.TotalAmt
          /\ status = "Paid" <=> invoice.Balance = 0
          /\ status = "Unpaid"
               <=> (invoice.Balance = invoice.TotalAmt /\ invoice.Balance # 0)
          /\ status = "Partial"
               <=> (invoice.Balance # 0 /\ invoice.Balance # invoice.TotalAmt)

\* An invoice whose balance and total are both 0 has been normalized.
C13_Witness ==
  /\ fn.op = "invoices"
  /\ fn.output # <<>>
  /\ fn.input.items[1].Balance = 0
  /\ fn.input.items[1].TotalAmt = 0

\* C14: the status of a normalized bill is "Paid" exactly when its balance is
\* 0 and "Unpaid" otherwise, never "Partial".
C14_BillStatus ==
  fn.op = "bills" =>
    \A i \in DOMAIN fn.output :
      LET bill == fn.input.items[i]
          status == fn.output[i].status
      IN  /\ fn.output[i].balance = bill.Balance
          /\ status = "Paid" <=> bill.Balance = 0
          /\ status = "Unpaid" <=> bill.Balance # 0
          /\ status # "Partial"

\* A bill that is paid in part has been normalized.
C14_Witness ==
  /\ fn.op = "bills"
  /\ fn.output # <<>>
  /\ fn.input.items[1].Balance = 1
  /\ fn.input.items[1].TotalAmt = 2

\* C15: in each of the five categories, a payload without a body, without a
\* QueryResponse or without the entity list, and one whose list is empty, is
\* normalized to the empty sequence; the normalizer returns in every case.
C15_MissingIsEmpty ==
  (/\ fn.op \in Categories
   /\ \/ ~fn.input.data
      \/ ~fn.input.QueryResponse
      \/ ~fn.input.list
      \/ fn.input.items = <<>>)
    => fn.output = <<>>

\* A payload that has a QueryResponse but no entity list has been normalized.
C15_Witness ==
  /\ fn.op \in Categories
  /\ fn.input.data /\ fn.input.QueryResponse /\ ~fn.input.list
  /\ fn.input.items # <<>>

\* The field names the specification gives each normalized record.
SpecFieldNames(category) ==
  CASE category = "accounts" ->
         {"id", "name", "accountType", "accountSubType", "currentBalance", "active"}
    [] category = "customers" ->
         {"id", "displayName", "companyName", "primaryEmail", "primaryPhone",
          "balance", "active"}
    [] category = "invoices" ->
         {"id", "customerId", "customerName", "txnDate", "dueDate", "totalAmount",
          "balance", "status", "lineItems"}
    [] category = "bills" ->
         {"id", "vendorId", "vendorName", "txnDate", "dueDate", "totalAmount",
          "balance", "status", "lineItems"}
    [] category = "payments" ->
         {"id", "customerId", "customerName", "txnDate", "amount",
          "paymentMethodName"}

\* The field names the normalizers write.
CodeFieldNames(category) ==
  CASE category = "accounts" ->
         {"id", "name", "type", "subType", "balance", "isActive"}
    [] category = "customers" ->
         {"id", "displayName", "companyName", "email", "phone", "balance",
          "isActive"}
    [] category = "invoices" ->
         {"id", "customerId", "customerName", "date", "dueDate", "total",
          "balance", "status", "lineItems"}
    [] category = "bills" ->
         {"id", "vendorId", "vendorName", "date", "dueDate", "total", "balance",
          "status", "lineItems"}
    [] category = "payments" ->
         {"id", "customerId", "customerName", "date", "amount", "paymentMethod"}

\* C16 as stated: every normalized record carries exactly the field names of
\* the specification's data model for its category.
C16_SpecFieldNames ==
  fn.op \in Categories =>
    \A i \in DOMAIN fn.output : DOMAIN fn.output[i] = SpecFieldNames(fn.op)

\* C16: every normalized record carries exactly the field names the
\* normalizers write: Account {id, name, type, subType, balance, isActive},
\* Customer {id, displayName, companyName, email, phone, balance, isActive},
\* Invoice and Bill {id, customerId or vendorId, customerName or vendorName,
\* date, dueDate, total, balance, status, lineItems}, Payment {id, customerId,
\* customerName, date, amount, paymentMethod}; one record per vendor record.
C16_CodeFieldNames ==
  fn.op \in Categories =>
    /\ ~Missing(fn.input) => Len(fn.output) = Len(fn.input.items)
    /\ \A i \in DOMAIN fn.output : DOMAIN fn.output[i] = CodeFieldNames(fn.op)

\* A payment has been normalized.
C16_Witness ==
  /\ fn.op = "payments"
  /\ fn.output # <<>>

\* The entity each dated operation selects from.
DatedEntity(op) ==
  CASE op = "getInvoices" -> "Invoice"
    [] op = "getBills" -> "Bill"
    [] op = "getPayments" -> "Payment"

\* The query the claim describes; a bound is written as a quoted date literal.
DescribedQuery(op, start, end) ==
  CASE start = "" /\ end = "" -> "select * from " \o DatedEntity(op)
    [] start # "" /\ end = "" ->
         "select * from " \o DatedEntity(op) \o " WHERE TxnDate >= '" \o start \o "'"
    [] start = "" /\ end # "" ->
         "select * from " \o DatedEntity(op) \o " WHERE TxnDate <= '" \o end \o "'"
    [] start # "" /\ end # "" ->
         "select * from " \o DatedEntity(op) \o " WHERE TxnDate >= '" \o start
           \o "' AND TxnDate <= '" \o end \o "'"

\* C17: the query getInvoices, getBills and getPayments send is
\* "select * from <Entity>" followed by nothing when both bounds are absent,
\* by " WHERE TxnDate >= start" when only the start is given, by
\* " WHERE TxnDate <= end" when only the end is given, and by
\* " WHERE TxnDate >= start AND TxnDate <= end" when both are given.
C17_QueryOfDateRange ==
  \A p \in Procs :
    (proc[p].pc = "get" /\ proc[p].op \in DatedOps) =>
      LET sent == proc[p].log[Len(proc[p].log)] IN
      /\ sent.ev = "get_sent"
      /\ sent.op = proc[p].op
      /\ sent.url = "/query?query="
                      \o DescribedQuery(proc[p].op, proc[p].startDate, proc[p].endDate)

\* getBills has sent its query with an end date and no start date.
C17_Witness ==
  /\ proc["api"].pc = "get"
  /\ proc["api"].op = "getBills"
  /\ proc["api"].startDate = ""
  /\ proc["api"].endDate # ""

\* The events that end a call of testConnection or a fetch in failure.
FailureEvents == {"refresh_fail", "persist_fail", "get_fail"}

\* C18: testConnection always returns a result and never throws:
\* {success: true} when the getCompanyInfo probe succeeds, and
\* {success: false, error: <classified error>} when the probe or the refresh
\* before it fails.
C18_TestConnectionReturns ==
  LET pr == proc["test"] IN
  pr.pc = "done" =>
    LET last == pr.log[Len(pr.log)].ev IN
    /\ pr.ret.kind = "returned"
    /\ last \in FailureEvents \cup {"get_ok"}
    /\ last = "get_ok" => pr.ret.value = [success |-> TRUE]
    /\ last \in FailureEvents =>
         /\ DOMAIN pr.ret.value = {"success", "error"}
         /\ pr.ret.value.success = FALSE
         /\ pr.ret.value.error.kind = "classified"
         /\ pr.ret.value.error.type \in ErrorTypes
         /\ pr.ret.value.error = handleQuickBooksError(pr.caught)

\* A connection test has ended because the refresh before its probe failed.
C18_Witness ==
  /\ proc["test"].pc = "done"
  /\ proc["test"].log # <<>>
  /\ proc["test"].log[Len(proc["test"].log)].ev = "refresh_fail"

\* The place of each fetch in the order accounts, customers, invoices, bills,
\* payments, reports.
PlaceOf(op) ==
  CASE op = "getAccounts" -> 1
    [] op = "getCustomers" -> 2
    [] op = "getInvoices" -> 3
    [] op = "getBills" -> 4
    [] op = "getPayments" -> 5
    [] OTHER -> 6

SentEvents == {"refresh_sent", "get_sent"}

\* The events that may settle a request.
SettlesOf(ev) ==
  IF ev = "refresh_sent" THEN {"refresh_ok", "refresh_fail"} ELSE {"get_ok", "get_fail"}

\* C19: within one sync the fetches are issued one after another in the order
\* accounts, customers, invoices, bills, payments, reports, with at most one
\* vendor request in flight; once a fetch fails no later request is issued and
\* no failed request is sent again.
C19_FetchesInOrder ==
  LET pr == proc["sync"]
      log == pr.log
  IN  /\ \A i, j \in DOMAIN log :
           (i < j /\ log[i].ev = "get_sent" /\ log[j].ev = "get_sent")
             => PlaceOf(log[i].op) < PlaceOf(log[j].op)
      /\ \A i, j \in DOMAIN log :
           (i < j /\ log[i].ev = "refresh_sent" /\ log[j].ev = "refresh_sent")
             => PlaceOf(log[i].op) < PlaceOf(log[j].op)
      /\ \A i, j \in DOMAIN log : i <= j => PlaceOf(log[i].op) <= PlaceOf(log[j].op)
      /\ \A i \in DOMAIN log :
           log[i].ev \in SentEvents =>
             IF i = Len(log) THEN pr.pc \in {"refresh", "get"}
             ELSE log[i + 1].ev \in SettlesOf(log[i].ev) /\ log[i + 1].op = log[i].op
      /\ \A i \in DOMAIN log :
           (log[i].ev \notin SentEvents /\ log[i].ev # "persist_fail") =>
             /\ i > 1
             /\ log[i - 1].ev \in SentEvents
             /\ log[i].ev \in SettlesOf(log[i - 1].ev)
      /\ \A i \in DOMAIN log :
           log[i].ev \in FailureEvents => (i = Len(log) /\ pr.pc = "done")
      /\ pr.pc \in {"refresh", "get"} => (log # <<>> /\ log[Len(log)].ev \in SentEvents)

\* A sync has fetched two categories and failed on a later one.
C19_Witness ==
  LET pr == proc["sync"] IN
  /\ pr.pc = "done"
  /\ Cardinality({i \in DOMAIN pr.log : pr.log[i].ev = "get_ok"}) >= 2
  /\ pr.log[Len(pr.log)].ev = "get_fail"
  /\ pr.log[Len(pr.log)].op = "getBills"

\* The activations of the page that have a request in flight.
Awaiting == {p \in Procs : InFlight(proc[p])}

\* C20: in every reachable state of the integration page at most one refresh
\* or sync is in flight against the stored credential bundle: a sync, a
\* connection test and the refreshes they trigger never overlap.
C20_OneInFlightPerBundle ==
  page.mounted => Cardinality(Awaiting) <= 1

\* The page has been disconnected: it is mounted and holds no bundle (the
\* store held one when it was mounted, and nothing on the page authorizes).
Disconnected == page.mounted /\ ~page.isConnected /\ ~page.authData.present

\* C21: after disconnect the credential bundle and the sync snapshot are
\* absent from the store and stay absent, also when a sync or connection test
\* that started before the disconnect finishes after it.
C21_DisconnectedStaysAbsent ==
  Disconnected => (~lsAuth.present /\ ~lsData.present)

\* C22: the callback posts the token exchange only for a request whose state
\* equals the state generated for the authorization flow of the browser.
C22_ExchangeOnlyForGeneratedState ==
  cb.posts # <<>> => (cb.flow # "" /\ cb.req.state = cb.flow)

\* C23: a sync whose options carry a start or an end date fetches invoices,
\* bills and payments restricted to that range: the query sent for each of
\* them carries the TxnDate bounds of the options.
C23_SyncQueriesCarryDates ==
  LET pr == proc["sync"] IN
  (/\ pr.pc = "get"
   /\ pr.op \in DatedOps
   /\ (pr.opts.startDate # "" \/ pr.opts.endDate # ""))
    => pr.log[Len(pr.log)].url
         = "/query?query=" \o DescribedQuery(pr.op, pr.opts.startDate, pr.opts.endDate)

====
